---- MODULE Spec2Model ----
(***************************************************************************)
(* Catalog store of ShreejiFoods: the tables, constraints, triggers and    *)
(* functions of supabase/migrations/20251029034905_create_inventory_       *)
(* system.sql, driven by the statements the admin pages issue.             *)
(*                                                                         *)
(* text values are sequences of one-character strings, so that lpad, ||    *)
(* and the parsing of a SKU's digits are computed and not assumed.         *)
(***************************************************************************)
EXTENDS Integers, Sequences, FiniteSets, TLC

(* ------------------------------ bounds -------------------------------- *)

\* rows ever inserted into public.product_variants
MaxVariants == 2

\* generate_sku() calls the SKU specification follows
MaxCalls == 3

\* latest value of now() the timestamp specification follows
MaxClock == 3

\* longest variant list handed to the ordering resolver
MaxList == 3

(* ------------------------------- text --------------------------------- *)

\* SQL NULL of a text column
NULL == <<"<null>">>

DigitChars == <<"0", "1", "2", "3", "4", "5", "6", "7", "8", "9">>

RECURSIVE IntToText(_)
\* next_val::text for a positive bigint
IntToText(n) ==
    IF n < 10 THEN <<DigitChars[n + 1]>>
    ELSE IntToText(n \div 10) \o <<DigitChars[(n % 10) + 1]>>

\* PostgreSQL lpad(string, length, fill) with a one-character fill: pads on
\* the left up to length, and cuts the string to length when it is longer
lpad(str, len, fill) ==
    IF Len(str) >= len THEN SubSeq(str, 1, len)
    ELSE [i \in 1..len |->
            IF i <= len - Len(str) THEN fill ELSE str[i - (len - Len(str))]]

\* width given to lpad by generate_sku
SkuWidth == 4

SkuPrefix == <<"S", "F", "-">>

\* the text generate_sku returns for sequence value next_val
FormatSku(next_val) == SkuPrefix \o lpad(IntToText(next_val), SkuWidth, "0")

DigitValue(c) == CHOOSE d \in 0..9 : DigitChars[d + 1] = c

RECURSIVE TextToInt(_)
\* the number a text of decimal digits denotes
TextToInt(t) ==
    IF Len(t) = 0 THEN 0
    ELSE 10 * TextToInt(SubSeq(t, 1, Len(t) - 1)) + DigitValue(t[Len(t)])

\* numeric suffix of a generated SKU: the digits after the prefix
SkuSuffix(sku) == TextToInt(SubSeq(sku, Len(SkuPrefix) + 1, Len(sku)))

(* --------------------------- value domains ---------------------------- *)

\* auth.uid() of the callers; admin_users holds the first
Actors == {"admin", "anon"}

admin_users == {"admin"}

\* public.is_admin() for the caller
is_admin(actor) == actor \in admin_users

\* the check constraint on product_variants.variant_type
VariantTypes == {"weight", "pcs", "price", "flavor", "size"}

\* the variant_value create_default_variant gives: 'default'
DefaultValue == <<"d", "e", "f", "a", "u", "l", "t">>

\* a variant_value callers send: '250g'
Value250g == <<"2", "5", "0", "g">>

\* (variant_type, variant_value, price, quantity) of the rows callers send:
\* the default variant's values, a weight variant, and a pcs variant with the
\* weight variant's value
PayloadKinds ==
    {<<"pcs", DefaultValue, 0, 0>>, <<"weight", Value250g, 40, 5>>,
     <<"pcs", Value250g, 40, 5>>}

\* sku values callers send: one the generator also produces, one it cannot
PayloadSkus == {FormatSku(2), <<"A", "1">>}

\* category names; a product payload may carry none, the empty string or a name
CategoryNames == {<<"s", "w", "e", "e", "t", "s">>, <<"n", "u", "t", "s">>}

PayloadCategories == CategoryNames \cup {NULL, <<>>}

\* the ids gen_random_uuid() gives to the rows of public.product, in the
\* order of their inserts
ProductIds == {1, 2}

\* database sessions: each runs one statement at a time
Sessions == {"s1", "s2"}

RECURSIVE Pow10(_)
Pow10(k) == IF k = 0 THEN 1 ELSE 10 * Pow10(k - 1)

\* values of sku_sequence the SKU specification starts from: the last value
\* of each digit count up to the width generate_sku pads to
SeqStarts == {Pow10(k) - 1 : k \in 0..SkuWidth}

VariantRow(p, k, a) ==
    [product_id |-> p, sku |-> k, variant_type |-> a[1], variant_value |-> a[2],
     price |-> a[3], quantity |-> a[4]]

\* rows a caller may send for a variant: every product, sku and kind, and for
\* every product a row without sku and a row whose variant_type is outside
\* the check constraint
PayloadRows ==
    {VariantRow(p, k, a) : p \in ProductIds, k \in PayloadSkus, a \in PayloadKinds}
    \cup {VariantRow(p, NULL, <<"weight", Value250g, 40, 5>>) : p \in ProductIds}
    \cup {VariantRow(p, <<"A", "1">>, <<"box", Value250g, 40, 5>>) : p \in ProductIds}

\* the row the model lets a caller outside admin_users send: row-level
\* security decides its statements before any column is looked at
AnonRows == {VariantRow(1, <<"A", "1">>, <<"weight", Value250g, 40, 5>>)}

\* rows sent by actor
RowsOf(actor) == IF actor \in admin_users THEN PayloadRows ELSE AnonRows

\* the columns an update of a variant may set: the product, the sku, or
\* the type, value, price and quantity (as ProductForm.onSubmit sends them)
PayloadPatches ==
    {[product_id |-> p] : p \in ProductIds}
    \cup {[sku |-> k] : k \in PayloadSkus \cup {NULL}}
    \cup {[variant_type |-> a[1], variant_value |-> a[2], price |-> a[3],
           quantity |-> a[4]] : a \in PayloadKinds \cup {<<"box", Value250g, 40, 5>>}}

AnonPatches == {[sku |-> <<"A", "1">>]}

\* patches sent by actor
PatchesOf(actor) == IF actor \in admin_users THEN PayloadPatches ELSE AnonPatches

\* update ... set: the row with the columns of the patch replaced
ApplyPatch(row, patch) ==
    [c \in DOMAIN row |-> IF c \in DOMAIN patch THEN patch[c] ELSE row[c]]

\* nextval calls on public.sku_sequence the catalog specification follows:
\* one for each product and one more, for an insert that is rolled back
MaxSeq == Cardinality(ProductIds) + 1

(* -------------------------- error messages ---------------------------- *)

NoError == "ok"
ErrRls == "new row violates row-level security policy"
ErrNotNull == "null value in column violates not-null constraint"
ErrCheck == "new row violates check constraint product_variants_variant_type_check"
ErrSkuKey == "duplicate key value violates unique constraint product_variants_sku_key"
ErrVariantKey == "duplicate key value violates unique constraint unique_variant_per_product"
ErrCategoryKey == "duplicate key value violates unique constraint category_name_key"
ErrFk == "insert or update violates foreign key constraint"
ErrLastVariant == "A product must have at least one variant"

(* ------------------------------- state -------------------------------- *)

VARIABLES
    category,          \* public.category: the set of names
    product,           \* public.product: id -> row
    product_variants,  \* public.product_variants: id -> row
    sku_sequence,      \* last value handed out by public.sku_sequence
    product_ids,       \* number of product ids gen_random_uuid() has produced
    variant_ids,       \* number of variant ids gen_random_uuid() has produced
    deleting,          \* ids of the variant rows on which a session's delete
                       \* statement has run the before-delete trigger and not
                       \* yet removed the row
    response,          \* error of the last statement that completed, or NoError
    caller,            \* per session, its generate_sku() call: position,
                       \* next_val, and the number of calls that had returned
                       \* when it began
    returned,          \* the generate_sku() calls that returned, in order
    clock,             \* now() of the database server
    last_updated,      \* the last_updated column: <<table, id>> -> timestamp
    variants,          \* the variant list handed to sortVariants
    sorted,            \* per view, the list its sortVariants returned
    items,             \* Index: the variants fetchItems stored, per product
    selectedVariants,  \* Index: product id -> selected variant id
    user_selected,     \* per product, the variant id the user picked by hand
    effect_pending,    \* Index: the effect on [items] has not run yet
    fetching,          \* Index: results of the fetchItems selects in flight
    postgres_changes,  \* a change of the tables is published to the page
                       \* and the page has issued no fetchItems since
    form,              \* ProductForm: position and data of a create submission
    store_status,      \* public.store_status: id -> row
    dashboard,         \* per admin session: storeStatusId, storeStatus and
                       \* the position of its fetchStoreStatus
    inbox,             \* per admin session: store_status change payloads
                       \* not yet handed to its storeChannel handler
    last_set           \* is_open of the last store-status toggle that
                       \* succeeded, << >> before the first one

store == <<category, product, product_variants, sku_sequence, product_ids,
           variant_ids>>

\* the state of the generate_sku() callers
sku_calls == <<caller, returned>>

\* everything but the sequence and its callers
catalog == <<category, product, product_variants, product_ids, variant_ids,
             deleting, response>>

\* the last_updated columns and the server's time
timestamps == <<clock, last_updated>>

\* input and output of the ordering resolver
resolver == <<variants, sorted>>

\* state of the catalog page
page == <<items, selectedVariants, user_selected, effect_pending>>

vars == <<category, product, product_variants, sku_sequence, product_ids,
          variant_ids, deleting, response, caller, returned, clock,
          last_updated, variants, sorted, items, selectedVariants,
          user_selected, effect_pending, fetching, postgres_changes, form,
          store_status, dashboard, inbox, last_set>>

\* the store-status table and the dashboards that drive it
status == <<store_status, dashboard, inbox, last_set>>

\* the tables whose changes the pages subscribe to
tables == <<category, product, product_variants>>

\* no row is stamped yet
NoTimestamps ==
    /\ clock = 0
    /\ last_updated = << >>

\* nothing has been sorted
NoResolver ==
    /\ variants = << >>
    /\ sorted = << >>

\* the catalog page is not mounted
NoPage ==
    /\ items = << >>
    /\ selectedVariants = << >>
    /\ user_selected = << >>
    /\ effect_pending = FALSE
    /\ fetching = {}
    /\ postgres_changes = FALSE

\* the product form is closed
NoForm ==
    form = [pc |-> "closed", variants |-> << >>, newProduct |-> 0,
            autoVariant |-> 0, next |-> 1, skuData |-> NULL]

\* store_status is empty and no dashboard is mounted
NoStatus ==
    /\ store_status = << >>
    /\ dashboard = [s \in Sessions |-> [pc |-> "unmounted", storeStatusId |-> << >>,
                                         storeStatus |-> << >>]]
    /\ inbox = [s \in Sessions |-> << >>]
    /\ last_set = << >>

Init ==
    /\ category = {}
    /\ product = << >>
    /\ product_variants = << >>
    /\ sku_sequence = 0
    /\ product_ids = 0
    /\ variant_ids = 0
    /\ deleting = {}
    /\ response = NoError
    /\ caller = [s \in Sessions |-> [pc |-> "idle", next_val |-> 0, seen |-> 0]]
    /\ returned = << >>
    /\ NoTimestamps
    /\ NoResolver
    /\ NoPage
    /\ NoForm
    /\ NoStatus

(* ------------------------ constraints, triggers ----------------------- *)

Remove(f, k) == [x \in (DOMAIN f) \ {k} |-> f[x]]

Put(f, k, row) == [x \in (DOMAIN f) \cup {k} |-> IF x = k THEN row ELSE f[x]]

\* ids of the variant rows of product p
VariantsOf(pv, p) == {v \in DOMAIN pv : pv[v].product_id = p}

\* sku_sequence: START 1 INCREMENT 1, Init holds 0 for "not called yet"
nextval(last_value) == last_value + 1

\* the product row as the payload gave it, without the trigger
nullify_empty_category_name_kept(cat) == cat

\* trg_nullify_empty_category_name, before insert or update on product
nullify_empty_category_name(cat) == IF cat = <<>> THEN NULL ELSE cat

\* create_default_variant with the quantity column left out of the VALUES
\* list and a column default of 1
create_default_variant_quantity(NEW_id, sku) ==
    [product_id |-> NEW_id, sku |-> sku, variant_type |-> "pcs",
     variant_value |-> DefaultValue, price |-> 0, quantity |-> 1]

\* the row create_default_variant inserts for the new product NEW_id
create_default_variant(NEW_id, sku) ==
    [product_id |-> NEW_id, sku |-> sku, variant_type |-> "pcs",
     variant_value |-> DefaultValue, price |-> 0, quantity |-> 0]

\* the sku column declared not null, without unique
SkuError_not_unique(pv, id, row) ==
    IF row.sku = NULL THEN ErrNotNull ELSE NoError

\* sku text not null unique
SkuError(pv, id, row) ==
    IF row.sku = NULL THEN ErrNotNull
    ELSE IF \E w \in (DOMAIN pv) \ {id} : pv[w].sku = row.sku THEN ErrSkuKey
    ELSE NoError

\* unique_variant_per_product declared with the sku column added to its
\* three columns
VariantKeyError_with_sku(pv, id, row) ==
    IF \E w \in (DOMAIN pv) \ {id} :
          /\ pv[w].product_id = row.product_id
          /\ pv[w].sku = row.sku
          /\ pv[w].variant_type = row.variant_type
          /\ pv[w].variant_value = row.variant_value
    THEN ErrVariantKey
    ELSE NoError

\* constraint unique_variant_per_product unique (product_id, variant_type,
\* variant_value)
VariantKeyError(pv, id, row) ==
    IF \E w \in (DOMAIN pv) \ {id} :
          /\ pv[w].product_id = row.product_id
          /\ pv[w].variant_type = row.variant_type
          /\ pv[w].variant_value = row.variant_value
    THEN ErrVariantKey
    ELSE NoError

\* the constraints of product_variants on row `row` stored under id `id`, in
\* the order PostgreSQL checks them: not null, check, the unique indexes, and
\* the foreign key at the end of the statement
VariantConstraintError(pv, prod, id, row) ==
    IF row.sku = NULL THEN ErrNotNull
    ELSE IF row.variant_type \notin VariantTypes THEN ErrCheck
    ELSE IF SkuError(pv, id, row) # NoError THEN SkuError(pv, id, row)
    ELSE IF VariantKeyError(pv, id, row) # NoError THEN VariantKeyError(pv, id, row)
    ELSE IF row.product_id \notin DOMAIN prod THEN ErrFk
    ELSE NoError

\* trg_prevent_last_variant_delete, before delete of row OLD: the count is
\* taken over the rows the trigger's query sees
prevent_last_variant_delete(pv, OLD) ==
    IF Cardinality(VariantsOf(pv, OLD.product_id)) <= 1 THEN ErrLastVariant
    ELSE NoError

RECURSIVE CascadeDelete(_, _)
\* product_variants.product_id ... on delete cascade: deletes the rows of
\* product p one at a time; the before-delete trigger runs for each and sees
\* the rows the same command has already deleted
CascadeDelete(pv, p) ==
    IF VariantsOf(pv, p) = {} THEN [err |-> NoError, rows |-> pv]
    ELSE LET v == CHOOSE x \in VariantsOf(pv, p) : TRUE
             e == prevent_last_variant_delete(pv, pv[v])
         IN IF e # NoError THEN [err |-> e, rows |-> pv]
            ELSE CascadeDelete(Remove(pv, v), p)

\* on delete set null that clears the category of every product
SetNullCategory_all(prod, name) ==
    [p \in DOMAIN prod |-> [prod[p] EXCEPT !.category = NULL]]

\* product.category ... on delete set null
SetNullCategory(prod, name) ==
    [p \in DOMAIN prod |->
        IF prod[p].category = name THEN [prod[p] EXCEPT !.category = NULL]
        ELSE prod[p]]

(* ----------------------------- statements ----------------------------- *)

\* insert into product (ProductForm.onSubmit, InventoryForm.onSubmit): the
\* row insert and the after-insert trigger are one statement
InsertProductRow(actor, cat) ==
    /\ product_ids < Cardinality(ProductIds)
    /\ variant_ids < MaxVariants
    /\ sku_sequence < MaxSeq
    /\ LET NEW_id == product_ids + 1
           NEW_category == nullify_empty_category_name(cat)
           next_val == nextval(sku_sequence)
           row == create_default_variant(NEW_id, FormatSku(next_val))
           vid == variant_ids + 1
           prod == Put(product, NEW_id, [category |-> NEW_category,
                                         is_visible |-> TRUE])
           err == VariantConstraintError(product_variants, prod, vid, row)
       IN IF ~is_admin(actor)
          THEN /\ response' = ErrRls
               /\ UNCHANGED <<product, product_variants, sku_sequence,
                              product_ids, variant_ids>>
          ELSE IF NEW_category # NULL /\ NEW_category \notin category
          THEN /\ response' = ErrFk
               /\ UNCHANGED <<product, product_variants, sku_sequence,
                              product_ids, variant_ids>>
          ELSE IF err # NoError
          THEN \* the statement is rolled back; nextval is not
               /\ response' = err
               /\ sku_sequence' = next_val
               /\ UNCHANGED <<product, product_variants, product_ids,
                              variant_ids>>
          ELSE /\ product' = prod
               /\ product_variants' = Put(product_variants, vid, row)
               /\ sku_sequence' = next_val
               /\ product_ids' = NEW_id
               /\ variant_ids' = vid
               /\ response' = NoError
    /\ UNCHANGED <<category, deleting>>
    /\ postgres_changes' = (postgres_changes \/ tables' # tables)
    /\ UNCHANGED <<sku_calls, timestamps, resolver, page, fetching, status>>

\* the insert into product sent outside a ProductForm submission in progress
CreateProduct(actor, cat) ==
    InsertProductRow(actor, cat) /\ UNCHANGED form

\* update product set category = ... where id = p
UpdateProduct(actor, p, cat) ==
    /\ p \in 1..product_ids
    /\ LET NEW_category == nullify_empty_category_name(cat)
       IN IF ~is_admin(actor) \/ p \notin DOMAIN product
          THEN /\ response' = NoError
               /\ UNCHANGED product
          ELSE IF NEW_category # NULL /\ NEW_category \notin category
          THEN /\ response' = ErrFk
               /\ UNCHANGED product
          ELSE /\ product' = [product EXCEPT ![p].category = NEW_category]
               /\ response' = NoError
    /\ UNCHANGED <<category, product_variants, sku_sequence, product_ids,
                   variant_ids, deleting>>
    /\ postgres_changes' = (postgres_changes \/ tables' # tables)
    /\ UNCHANGED <<sku_calls, timestamps, resolver, page, fetching, form, status>>

\* update product set is_visible = ... where id = p (handleVisibilityToggle)
handleVisibilityToggle(actor, p, isVisible) ==
    /\ p \in 1..product_ids
    /\ IF ~is_admin(actor) \/ p \notin DOMAIN product
       THEN UNCHANGED product
       ELSE product' = [product EXCEPT ![p].is_visible = isVisible]
    /\ response' = NoError
    /\ UNCHANGED <<category, product_variants, sku_sequence, product_ids,
                   variant_ids, deleting>>
    /\ postgres_changes' = (postgres_changes \/ tables' # tables)
    /\ UNCHANGED <<sku_calls, timestamps, resolver, page, fetching, form, status>>

\* delete from product where id = p (handleDelete), with its cascade
DeleteProduct(actor, p) ==
    /\ p \in 1..product_ids
    /\ LET res == CascadeDelete(product_variants, p)
       IN IF ~is_admin(actor) \/ p \notin DOMAIN product
          THEN /\ response' = NoError
               /\ UNCHANGED <<product, product_variants>>
          ELSE IF res.err # NoError
          THEN /\ response' = res.err
               /\ UNCHANGED <<product, product_variants>>
          ELSE /\ product' = Remove(product, p)
               /\ product_variants' = res.rows
               /\ response' = NoError
    /\ UNCHANGED <<category, sku_sequence, product_ids, variant_ids, deleting>>
    /\ postgres_changes' = (postgres_changes \/ tables' # tables)
    /\ UNCHANGED <<sku_calls, timestamps, resolver, page, fetching, form, status>>

\* insert into product_variants (ProductForm.onSubmit, VariantForm)
InsertVariantRow(actor, row) ==
    /\ variant_ids < MaxVariants
    /\ LET vid == variant_ids + 1
           err == VariantConstraintError(product_variants, product, vid, row)
       IN IF ~is_admin(actor)
          THEN /\ response' = ErrRls
               /\ UNCHANGED <<product_variants, variant_ids>>
          ELSE IF err # NoError
          THEN /\ response' = err
               /\ UNCHANGED <<product_variants, variant_ids>>
          ELSE /\ product_variants' = Put(product_variants, vid, row)
               /\ variant_ids' = vid
               /\ response' = NoError
    /\ UNCHANGED <<category, product, sku_sequence, product_ids, deleting>>
    /\ postgres_changes' = (postgres_changes \/ tables' # tables)
    /\ UNCHANGED <<sku_calls, timestamps, resolver, page, fetching, status>>

\* the insert into product_variants sent outside a ProductForm submission
CreateVariant(actor, row) ==
    InsertVariantRow(actor, row) /\ UNCHANGED form

\* update product_variants set ... where id = v
UpdateVariantRow(actor, v, patch) ==
    /\ v \in 1..variant_ids
    /\ LET row == ApplyPatch(product_variants[v], patch)
           err == VariantConstraintError(product_variants, product, v, row)
       IN IF ~is_admin(actor) \/ v \notin DOMAIN product_variants
          THEN /\ response' = NoError
               /\ UNCHANGED product_variants
          ELSE IF err # NoError
          THEN /\ response' = err
               /\ UNCHANGED product_variants
          ELSE /\ product_variants' = [product_variants EXCEPT ![v] = row]
               /\ response' = NoError
    /\ UNCHANGED <<category, product, sku_sequence, product_ids, variant_ids,
                   deleting>>
    /\ postgres_changes' = (postgres_changes \/ tables' # tables)
    /\ UNCHANGED <<sku_calls, timestamps, resolver, page, fetching, status>>

\* the update of product_variants sent outside a ProductForm submission
UpdateVariant(actor, v, patch) ==
    UpdateVariantRow(actor, v, patch) /\ UNCHANGED form

\* delete from product_variants where id = v (handleVariantDelete), up to and
\* including the before-delete trigger: the trigger's count reads the rows
\* committed so far, and the row itself is removed in DeleteVariantEnd
DeleteVariantBegin(actor, v) ==
    /\ v \in 1..variant_ids
    /\ IF ~is_admin(actor) \/ v \notin DOMAIN product_variants
       THEN /\ response' = NoError
            /\ UNCHANGED deleting
       ELSE IF prevent_last_variant_delete(product_variants, product_variants[v]) # NoError
       THEN /\ response' = ErrLastVariant
            /\ UNCHANGED deleting
       ELSE /\ Cardinality(deleting) < Cardinality(Sessions)
            /\ v \notin deleting
            /\ deleting' = deleting \cup {v}
            /\ UNCHANGED response
    /\ UNCHANGED store
    /\ postgres_changes' = (postgres_changes \/ tables' # tables)
    /\ UNCHANGED <<sku_calls, timestamps, resolver, page, fetching, form, status>>

\* the delete statement on row v removes the row and commits
DeleteVariantEnd(v) ==
    /\ v \in deleting
    /\ product_variants' = Remove(product_variants, v)
    /\ deleting' = deleting \ {v}
    /\ response' = NoError
    /\ UNCHANGED <<category, product, sku_sequence, product_ids, variant_ids>>
    /\ postgres_changes' = (postgres_changes \/ tables' # tables)
    /\ UNCHANGED <<sku_calls, timestamps, resolver, page, fetching, form, status>>

\* insert into category (ProductDetailDialog)
CreateCategory(actor, name) ==
    /\ IF ~is_admin(actor)
       THEN /\ response' = ErrRls
            /\ UNCHANGED category
       ELSE IF name \in category
       THEN /\ response' = ErrCategoryKey
            /\ UNCHANGED category
       ELSE /\ category' = category \cup {name}
            /\ response' = NoError
    /\ UNCHANGED <<product, product_variants, sku_sequence, product_ids,
                   variant_ids, deleting>>
    /\ postgres_changes' = (postgres_changes \/ tables' # tables)
    /\ UNCHANGED <<sku_calls, timestamps, resolver, page, fetching, form, status>>

\* delete from category (handleRemoveCategory), with on delete set null
DeleteCategory(actor, name) ==
    /\ IF ~is_admin(actor) \/ name \notin category
       THEN /\ response' = NoError
            /\ UNCHANGED <<category, product>>
       ELSE /\ category' = category \ {name}
            /\ product' = SetNullCategory(product, name)
            /\ response' = NoError
    /\ UNCHANGED <<product_variants, sku_sequence, product_ids, variant_ids,
                   deleting>>
    /\ postgres_changes' = (postgres_changes \/ tables' # tables)
    /\ UNCHANGED <<sku_calls, timestamps, resolver, page, fetching, form, status>>

Next ==
    \/ \E actor \in Actors, cat \in PayloadCategories : CreateProduct(actor, cat)
    \/ \E actor \in Actors, p \in ProductIds : DeleteProduct(actor, p)
    \/ \E actor \in Actors : \E row \in RowsOf(actor) : CreateVariant(actor, row)
    \/ \E actor \in Actors, v \in 1..MaxVariants : \E patch \in PatchesOf(actor) :
          UpdateVariant(actor, v, patch)
    \/ \E actor \in Actors, v \in 1..MaxVariants : DeleteVariantBegin(actor, v)
    \/ \E v \in 1..MaxVariants : DeleteVariantEnd(v)

Spec == Init /\ [][Next]_vars

(* ----------------------------- categories ----------------------------- *)

\* the statements on category and on the columns of product, by any caller
CategoryNext ==
    \/ \E actor \in Actors, name \in CategoryNames : CreateCategory(actor, name)
    \/ \E actor \in Actors, name \in CategoryNames : DeleteCategory(actor, name)
    \/ \E actor \in Actors, cat \in PayloadCategories : CreateProduct(actor, cat)
    \/ \E actor \in Actors, p \in ProductIds, cat \in PayloadCategories :
          UpdateProduct(actor, p, cat)
    \/ \E actor \in Actors, p \in ProductIds, isVisible \in BOOLEAN :
          handleVisibilityToggle(actor, p, isVisible)

CategorySpec == Init /\ [][CategoryNext]_vars

(* --------------------------- generate_sku() --------------------------- *)

\* a session calls generate_sku(): the call has begun and not yet run
SkuBegin(s) ==
    /\ caller[s].pc = "idle"
    /\ Len(returned) + Cardinality({t \in Sessions : caller[t].pc # "idle"}) < MaxCalls
    /\ caller' = [caller EXCEPT ![s] = [pc |-> "begun", next_val |-> 0,
                                        seen |-> Len(returned)]]
    /\ UNCHANGED <<sku_sequence, returned, catalog>>
    /\ UNCHANGED <<timestamps, resolver, page>>
    /\ UNCHANGED <<fetching, postgres_changes, form, status>>

\* next_val := nextval('public.sku_sequence'), one atomic step of the sequence
SkuNextval(s) ==
    /\ caller[s].pc = "begun"
    /\ sku_sequence' = nextval(sku_sequence)
    /\ caller' = [caller EXCEPT ![s].pc = "drawn",
                                ![s].next_val = nextval(sku_sequence)]
    /\ UNCHANGED <<returned, catalog>>
    /\ UNCHANGED <<timestamps, resolver, page>>
    /\ UNCHANGED <<fetching, postgres_changes, form, status>>

\* RETURN 'SF-' || lpad(next_val::text, 4, '0')
SkuReturn(s) ==
    /\ caller[s].pc = "drawn"
    /\ returned' = Append(returned, [next_val |-> caller[s].next_val,
                                     sku |-> FormatSku(caller[s].next_val),
                                     seen |-> caller[s].seen])
    /\ caller' = [caller EXCEPT ![s] = [pc |-> "idle", next_val |-> 0, seen |-> 0]]
    /\ UNCHANGED <<sku_sequence, catalog>>
    /\ UNCHANGED <<timestamps, resolver, page>>
    /\ UNCHANGED <<fetching, postgres_changes, form, status>>

\* the sequence has handed out any of the SeqStarts values so far
SkuInit ==
    /\ category = {}
    /\ product = << >>
    /\ product_variants = << >>
    /\ sku_sequence \in SeqStarts
    /\ product_ids = 0
    /\ variant_ids = 0
    /\ deleting = {}
    /\ response = NoError
    /\ caller = [s \in Sessions |-> [pc |-> "idle", next_val |-> 0, seen |-> 0]]
    /\ returned = << >>
    /\ NoTimestamps
    /\ NoResolver
    /\ NoPage
    /\ NoForm
    /\ NoStatus

SkuNext ==
    \/ \E s \in Sessions : SkuBegin(s)
    \/ \E s \in Sessions : SkuNextval(s)
    \/ \E s \in Sessions : SkuReturn(s)

SkuSpec == SkuInit /\ [][SkuNext]_vars

(* ---------------------------- last_updated ---------------------------- *)

\* the tables that carry a last_updated column
StampedTables == {"product", "product_variants"}

\* ids of the rows the timestamp specification follows in each table
StampedIds == {1, 2}

\* payloads of an insert or update, seen through the columns that bear on
\* last_updated: a payload without the column, and payloads that carry a
\* last_updated of the client's own choice (handleQuantityUpdate sends one)
StampPayloads ==
    {[quantity |-> 5]} \cup {[quantity |-> 5, last_updated |-> t] : t \in 0..MaxClock}

\* update_last_updated(), before update on product_variants
update_last_updated(NEW_row, now) == [NEW_row EXCEPT !.last_updated = now]

\* update_product_last_updated(), before update on product
update_product_last_updated(NEW_row, now) == [NEW_row EXCEPT !.last_updated = now]

\* the before-update trigger of the table
BeforeUpdate(table, NEW_row, now) ==
    IF table = "product" THEN update_product_last_updated(NEW_row, now)
    ELSE update_last_updated(NEW_row, now)

\* time passes on the server
Tick ==
    /\ clock < MaxClock
    /\ clock' = clock + 1
    /\ UNCHANGED last_updated
    /\ UNCHANGED <<store, deleting, response, sku_calls, resolver, page>>
    /\ UNCHANGED <<fetching, postgres_changes, form, status>>

\* insert into table: last_updated timestamp not null default now(), and no
\* trigger runs before an insert to set it
InsertStamped(table, id, payload) ==
    /\ <<table, id>> \notin DOMAIN last_updated
    /\ LET NEW_row == ApplyPatch([last_updated |-> clock], payload)
       IN last_updated' = Put(last_updated, <<table, id>>, NEW_row.last_updated)
    /\ UNCHANGED clock
    /\ UNCHANGED <<store, deleting, response, sku_calls, resolver, page>>
    /\ UNCHANGED <<fetching, postgres_changes, form, status>>

\* update table set ... where id = id, with the table's before-update trigger
UpdateStamped(table, id, payload) ==
    /\ <<table, id>> \in DOMAIN last_updated
    /\ LET OLD_row == [last_updated |-> last_updated[<<table, id>>]]
           NEW_row == BeforeUpdate(table, ApplyPatch(OLD_row, payload), clock)
       IN last_updated' = [last_updated EXCEPT ![<<table, id>>] = NEW_row.last_updated]
    /\ UNCHANGED clock
    /\ UNCHANGED <<store, deleting, response, sku_calls, resolver, page>>
    /\ UNCHANGED <<fetching, postgres_changes, form, status>>

StampNext ==
    \/ Tick
    \/ \E table \in StampedTables, id \in StampedIds, payload \in StampPayloads :
          InsertStamped(table, id, payload)
    \/ \E table \in StampedTables, id \in StampedIds, payload \in StampPayloads :
          UpdateStamped(table, id, payload)

StampSpec == Init /\ [][StampNext]_vars

(* -------------------------- ordering resolver ------------------------- *)

UpperChars == <<"A", "B", "C", "D", "E", "F", "G", "H", "I", "J", "K", "L", "M",
                "N", "O", "P", "Q", "R", "S", "T", "U", "V", "W", "X", "Y", "Z">>

LowerChars == <<"a", "b", "c", "d", "e", "f", "g", "h", "i", "j", "k", "l", "m",
                "n", "o", "p", "q", "r", "s", "t", "u", "v", "w", "x", "y", "z">>

\* String.prototype.toLowerCase
toLowerCase(str) ==
    [i \in 1..Len(str) |->
        IF \E k \in 1..Len(UpperChars) : UpperChars[k] = str[i]
        THEN LowerChars[CHOOSE k \in 1..Len(UpperChars) : UpperChars[k] = str[i]]
        ELSE str[i]]

\* String.prototype.includes
includes(str, sub) ==
    \E i \in 1..(Len(str) - Len(sub) + 1) : SubSeq(str, i, i + Len(sub) - 1) = sub

\* \d
IsDigit(c) == \E d \in 1..Len(DigitChars) : DigitChars[d] = c

\* length of the longest run of digits of str that starts at index i
DigitRun(str, i) ==
    CHOOSE k \in 0..(Len(str) - i + 1) :
        /\ \A j \in i..(i + k - 1) : IsDigit(str[j])
        /\ (i + k > Len(str) \/ ~IsDigit(str[i + k]))

\* a JavaScript number is held as a count of tenths, and the result of a
\* parse as a count of 1/100000: exact for the texts of the model, which
\* carry at most one decimal place; null is << >> and the number n is <<n>>
Tenths(int_digits, frac_digits) ==
    10 * TextToInt(int_digits)
      + (IF frac_digits = << >> THEN 0 ELSE DigitValue(frac_digits[1]))

\* Number.parseFloat on a text of digits and dots, in tenths: the longest
\* prefix that is a decimal literal, NaN (<< >>) when there is none
parseFloat(text) ==
    LET n == DigitRun(text, 1)
        hasDot == n < Len(text) /\ text[n + 1] = "."
        m == IF hasDot THEN DigitRun(text, n + 2) ELSE 0
    IN IF n = 0 /\ m = 0 THEN << >>
       ELSE <<Tenths(SubSeq(text, 1, n), SubSeq(text, n + 2, n + 1 + m))>>

\* the first match of /(\d+(?:\.\d+)?)/ in str, or << >>
FirstDecimal(str) ==
    IF \A i \in 1..Len(str) : ~IsDigit(str[i]) THEN << >>
    ELSE LET start == CHOOSE i \in 1..Len(str) :
                         IsDigit(str[i]) /\ \A j \in 1..(i - 1) : ~IsDigit(str[j])
             n == DigitRun(str, start)
             dot == start + n
             m == IF dot < Len(str) /\ str[dot] = "." THEN DigitRun(str, dot + 1)
                  ELSE 0
         IN SubSeq(str, start, IF m > 0 THEN dot + m ELSE dot - 1)

\* parseNumericValue of Index.tsx and ProductDetailDialog.tsx: the first
\* match of /[\d\.]+/ given to parseFloat
parseNumericValue(value) ==
    LET isNumChar(c) == IsDigit(c) \/ c = "."
    IN IF \A i \in 1..Len(value) : ~isNumChar(value[i]) THEN << >>
       ELSE LET start == CHOOSE i \in 1..Len(value) :
                            isNumChar(value[i]) /\ \A j \in 1..(i - 1) : ~isNumChar(value[j])
                stop == CHOOSE e \in start..Len(value) :
                            /\ \A j \in start..e : isNumChar(value[j])
                            /\ (e = Len(value) \/ ~isNumChar(value[e + 1]))
                num == parseFloat(SubSeq(value, start, stop))
            IN IF num = << >> THEN << >> ELSE <<num[1] * 10000>>

\* parseNumericValue of AdminDashboard.tsx: group 1 of the first match of
\* /[^\d]*(\d+(?:\.\d+)?)/ given to parseFloat
AdminParseNumericValue(value) ==
    LET match == FirstDecimal(value)
    IN IF match = << >> THEN << >> ELSE <<parseFloat(match)[1] * 10000>>

\* parseWeightInGrams, the same in the three files
parseWeightInGrams(value) ==
    LET lowerValue == toLowerCase(value)
        numMatch == FirstDecimal(lowerValue)
        num == parseFloat(numMatch)[1]
    IN IF numMatch = << >> THEN << >>
       ELSE IF includes(lowerValue, <<"k", "g">>) THEN <<num * 10000 * 1000>>
       ELSE IF includes(lowerValue, <<"g">>) /\ ~includes(lowerValue, <<"k", "g">>)
            THEN <<num * 10000>>
       ELSE IF includes(lowerValue, <<"m", "g">>) THEN <<num * 10>>
       ELSE IF includes(lowerValue, <<"l", "b">>)
               \/ includes(lowerValue, <<"p", "o", "u", "n", "d">>)
            THEN <<num * 4535920>>
       ELSE IF includes(lowerValue, <<"o", "z">>)
               \/ includes(lowerValue, <<"o", "u", "n", "c", "e">>)
            THEN <<num * 283495>>
       ELSE <<num * 10000>>

\* the order of the characters under localeCompare once case is ignored
Collation == <<" ", ".">> \o DigitChars \o LowerChars

CharRank(c) == CHOOSE k \in 1..Len(Collation) : Collation[k] = c

RECURSIVE CompareRanks(_, _)
\* lexicographic comparison of two lower-case texts: -1, 0 or 1
CompareRanks(x, y) ==
    IF x = << >> /\ y = << >> THEN 0
    ELSE IF x = << >> THEN 0 - 1
    ELSE IF y = << >> THEN 1
    ELSE IF CharRank(Head(x)) < CharRank(Head(y)) THEN 0 - 1
    ELSE IF CharRank(Head(x)) > CharRank(Head(y)) THEN 1
    ELSE CompareRanks(Tail(x), Tail(y))

\* a.localeCompare(b, undefined, { sensitivity: 'base' })
localeCompare(a, b) == CompareRanks(toLowerCase(a), toLowerCase(b))

\* the three places that list a product's variants
Views == {"Index", "AdminDashboard", "ProductDetailDialog"}

Sign(n) == IF n < 0 THEN 0 - 1 ELSE IF n > 0 THEN 1 ELSE 0

\* the body of the comparator of view once isWeightVariant is known: its
\* sign for the pair (a, b)
CompareParsed(view, isWeightVariant, a, b) ==
    LET parse(value) ==
            IF isWeightVariant THEN parseWeightInGrams(value)
            ELSE IF view = "AdminDashboard" THEN AdminParseNumericValue(value)
            ELSE parseNumericValue(value)
        aValue == parse(a.variant_value)
        bValue == parse(b.variant_value)
    IN IF aValue # << >> /\ bValue # << >> /\ aValue # bValue
       THEN Sign(aValue[1] - bValue[1])
       ELSE IF aValue # << >> /\ bValue = << >> THEN 0 - 1
       ELSE IF aValue = << >> /\ bValue # << >> THEN 1
       ELSE IF aValue = << >> /\ bValue = << >> /\ a.price # b.price
       THEN Sign(a.price - b.price)
       ELSE localeCompare(a.variant_value, b.variant_value)

\* the comparator sortVariants hands to Array.prototype.sort in view:
\* isWeightVariant is computed from the two variants it is called with
Comparator(view, a, b) ==
    CompareParsed(view, a.variant_type = "weight" \/ b.variant_type = "weight", a, b)

\* an insertion that puts x in front of the elements it compares equal to
InsertVariant_before_equal(view, acc, x) ==
    LET k == CHOOSE j \in 0..Len(acc) :
                 /\ j = 0 \/ Comparator(view, acc[j], x) < 0
                 /\ \A i \in (j + 1)..Len(acc) : Comparator(view, acc[i], x) >= 0
    IN SubSeq(acc, 1, k) \o <<x>> \o SubSeq(acc, k + 1, Len(acc))

\* one step of Array.prototype.sort, which is stable: x goes behind the last
\* element of acc that does not come after it, found from the right
InsertVariant(view, acc, x) ==
    LET k == CHOOSE j \in 0..Len(acc) :
                 /\ j = 0 \/ Comparator(view, acc[j], x) <= 0
                 /\ \A i \in (j + 1)..Len(acc) : Comparator(view, acc[i], x) > 0
    IN SubSeq(acc, 1, k) \o <<x>> \o SubSeq(acc, k + 1, Len(acc))

RECURSIVE sortVariants(_, _)
\* sortVariants of view: [...variants].sort(comparator)
sortVariants(view, list) ==
    IF list = << >> THEN << >>
    ELSE InsertVariant(view, sortVariants(view, SubSeq(list, 1, Len(list) - 1)),
                       list[Len(list)])

\* sortedVariants[0] || null
defaultVariant(sortedVariants) ==
    IF sortedVariants = << >> THEN NULL ELSE sortedVariants[1]

ResolverVariant(id, type, value, price) ==
    [id |-> id, variant_type |-> type, variant_value |-> value, price |-> price]

\* the variants the resolver specification sorts: weights in two units, pcs
\* values that carry a unit, a weight and a pcs variant with the same value,
\* a value whose first digit follows a dot, values without a number, and a
\* weight in milligrams
ResolverVariants ==
    {ResolverVariant(1, "weight", <<"1", "k", "g">>, 400),
     ResolverVariant(2, "pcs", <<"2", "k", "g">>, 90),
     ResolverVariant(3, "pcs", <<"5", "0", "0", "g">>, 60),
     ResolverVariant(4, "weight", <<"2", "5", "0", "g">>, 40),
     ResolverVariant(5, "pcs", <<"2", "5", "0", "g">>, 40),
     ResolverVariant(6, "price", <<"R", "s", ".", "5", "0">>, 50),
     ResolverVariant(7, "pcs", <<"1", "2", "p", "c", "s">>, 30),
     ResolverVariant(8, "size", <<"S", "m", "a", "l", "l">>, 20),
     ResolverVariant(9, "size", <<"L", "a", "r", "g", "e">>, 20),
     ResolverVariant(10, "weight", <<"5", "0", "0", "m", "g">>, 15)}

\* the lists of length n without repetition over set S
ListsOf(S, n) ==
    {l \in [1..n -> S] : \A i, j \in 1..n : i # j => l[i] # l[j]}

\* the rearrangements of list
PermutationsOf(list) ==
    {[i \in 1..Len(list) |-> list[f[i]]] :
        f \in {g \in [1..Len(list) -> 1..Len(list)] :
                  \A i, j \in 1..Len(list) : i # j => g[i] # g[j]}}

\* view renders the list: it sorts the variants it was given
Render(view) ==
    /\ view \notin DOMAIN sorted
    /\ sorted' = Put(sorted, view, sortVariants(view, variants))
    /\ UNCHANGED variants
    /\ UNCHANGED <<store, deleting, response, sku_calls, timestamps, page>>
    /\ UNCHANGED <<fetching, postgres_changes, form, status>>

\* any list of at most MaxList of the variants is the input
ResolverInit ==
    /\ category = {}
    /\ product = << >>
    /\ product_variants = << >>
    /\ sku_sequence = 0
    /\ product_ids = 0
    /\ variant_ids = 0
    /\ deleting = {}
    /\ response = NoError
    /\ caller = [s \in Sessions |-> [pc |-> "idle", next_val |-> 0, seen |-> 0]]
    /\ returned = << >>
    /\ NoTimestamps
    /\ variants \in UNION {ListsOf(ResolverVariants, n) : n \in 0..MaxList}
    /\ sorted = << >>
    /\ NoPage
    /\ NoForm
    /\ NoStatus

ResolverNext == \E view \in Views : Render(view)

ResolverSpec == ResolverInit /\ [][ResolverNext]_vars

(* ---------------------------- catalog page ---------------------------- *)

\* a row of product_variants as the page holds it
ItemVariant(v) ==
    [id |-> v, variant_type |-> product_variants[v].variant_type,
     variant_value |-> product_variants[v].variant_value,
     price |-> product_variants[v].price]

\* the lists the select of fetchItems may return for product p: its rows
\* ordered by variant_value, rows with the same value in any order
FetchedVariants(p) ==
    {list \in ListsOf({ItemVariant(v) : v \in VariantsOf(product_variants, p)},
                      Cardinality(VariantsOf(product_variants, p))) :
        \A i, j \in 1..Len(list) :
            i < j => localeCompare(list[i].variant_value, list[j].variant_value) <= 0}

\* ids of the variants in list
IdsOf(list) == {list[i].id : i \in 1..Len(list)}

\* a getVariantsForItem that always shows the first variant of the sorted list
getVariantsForItem_first(list, currentId) == sortVariants("Index", list)[1].id

\* getVariantsForItem(item).selectedVariant of Index.tsx, for the item whose
\* variants are the nonempty list and whose entry in selectedVariants is
\* currentId (<< >> when it has none): the id of the variant shown as active
getVariantsForItem(list, currentId) ==
    LET sortedVariants == sortVariants("Index", list)
    IN IF currentId # << >> /\ currentId[1] \in IdsOf(sortedVariants)
       THEN currentId[1]
       ELSE sortedVariants[1].id

\* selectedVariants[p], << >> when the map has no entry for p
CurrentId(selected, p) == IF p \in DOMAIN selected THEN <<selected[p]>> ELSE << >>

\* the id of the variant the page shows as active for product p
selectedVariant(p) == getVariantsForItem(items[p], CurrentId(selectedVariants, p))

\* the variant rows a caller of the page specification inserts
PageRows ==
    {VariantRow(q, k, <<"weight", Value250g, 40, 5>>) : q \in ProductIds, k \in PayloadSkus}

\* a filter that keeps every fetched product
visibleItems_all(normalizedItems) == DOMAIN normalizedItems

\* normalizedItems.filter((item) => item.is_visible) of fetchItems: the ids
\* of the fetched products that are kept
visibleItems(normalizedItems) ==
    {p \in DOMAIN normalizedItems : normalizedItems[p].is_visible}

\* the lists the select of fetchItems may hand to setItems, run against the
\* tables as they are now: the kept products, each with its variants
SelectResults ==
    LET visible == visibleItems(product)
    IN {fetched \in [visible -> UNION {FetchedVariants(p) : p \in visible}] :
           \A p \in visible : fetched[p] \in FetchedVariants(p)}

\* setItems(visibleItems) of fetchItems, which schedules the effect on
\* [items]; a hand-picked variant that is not in the new list of its product
\* is no longer a selection of the user
setItems(fetched) ==
    /\ items' = fetched
    /\ user_selected' =
          [p \in {q \in DOMAIN user_selected :
                     /\ q \in DOMAIN fetched
                     /\ user_selected[q] \in IdsOf(fetched[q])}
             |-> user_selected[p]]
    /\ effect_pending' = TRUE
    /\ UNCHANGED selectedVariants

\* fetchItems of Index.tsx, its select answered before anything else happens
fetchItems ==
    /\ ~effect_pending
    /\ \E fetched \in SelectResults : setItems(fetched)
    /\ UNCHANGED <<store, deleting, response, sku_calls, timestamps, resolver>>
    /\ UNCHANGED <<fetching, postgres_changes, form, status>>

\* the effect on [items] of Index.tsx: drops the entries of products that
\* are gone, and gives every product whose entry is missing or names a
\* variant it no longer has the first variant of its sorted list
SelectedVariantsEffect ==
    /\ effect_pending
    /\ LET kept == {p \in DOMAIN selectedVariants : p \in DOMAIN items}
           listed == {p \in DOMAIN items : items[p] # << >>}
           exists(p) == p \in kept /\ selectedVariants[p] \in IdsOf(items[p])
       IN selectedVariants' =
             [p \in (kept \cap listed) \cup listed |->
                 IF exists(p) THEN selectedVariants[p]
                 ELSE sortVariants("Index", items[p])[1].id]
    /\ effect_pending' = FALSE
    /\ UNCHANGED <<items, user_selected>>
    /\ UNCHANGED <<store, deleting, response, sku_calls, timestamps, resolver>>
    /\ UNCHANGED <<fetching, postgres_changes, form, status>>

\* handleVariantSelect of Index.tsx: the user picks a variant shown for item
handleVariantSelect(itemId, variantId) ==
    /\ ~effect_pending
    /\ itemId \in DOMAIN items
    /\ variantId \in IdsOf(items[itemId])
    /\ selectedVariants' = Put(selectedVariants, itemId, variantId)
    /\ user_selected' = Put(user_selected, itemId, variantId)
    /\ UNCHANGED <<items, effect_pending>>
    /\ UNCHANGED <<store, deleting, response, sku_calls, timestamps, resolver>>
    /\ UNCHANGED <<fetching, postgres_changes, form, status>>

\* an admin changes the variants while the catalog page is open
PageNext ==
    \/ CreateProduct("admin", NULL)
    \/ \E row \in PageRows : CreateVariant("admin", row)
    \/ \E v \in 1..MaxVariants : DeleteVariantBegin("admin", v)
    \/ \E v \in 1..MaxVariants : DeleteVariantEnd(v)
    \/ fetchItems
    \/ SelectedVariantsEffect
    \/ \E itemId \in ProductIds, variantId \in 1..MaxVariants :
          handleVariantSelect(itemId, variantId)
    \/ \E p \in ProductIds, isVisible \in BOOLEAN :
          handleVisibilityToggle("admin", p, isVisible)

PageSpec == Init /\ [][PageNext]_vars

(* ----------------------- overlapping fetchItems calls ------------------ *)

\* the fetchItems calls of one page that may be in flight together
MaxFetches == 2

\* a change notification reaches the page and its handler calls fetchItems:
\* the select runs against the tables as they are now, and its answer is on
\* its way to the page
fetchItemsRequest ==
    /\ postgres_changes
    /\ Cardinality(fetching) < MaxFetches
    /\ \E fetched \in SelectResults : fetching' = fetching \cup {fetched}
    /\ postgres_changes' = FALSE
    /\ UNCHANGED <<store, deleting, response, sku_calls, timestamps, resolver>>
    /\ UNCHANGED <<page, form, status>>

\* the answer of one of the calls in flight arrives, whichever was sent
\* first: the rest of fetchItems runs with it
fetchItemsResponse ==
    /\ ~effect_pending
    /\ \E fetched \in fetching :
          /\ setItems(fetched)
          /\ fetching' = fetching \ {fetched}
    /\ UNCHANGED <<store, deleting, response, sku_calls, timestamps, resolver>>
    /\ UNCHANGED <<postgres_changes, form, status>>

\* an admin changes the catalog while the page refetches on every change
FetchNext ==
    \/ CreateProduct("admin", NULL)
    \/ \E row \in PageRows : CreateVariant("admin", row)
    \/ \E p \in ProductIds, isVisible \in BOOLEAN :
          handleVisibilityToggle("admin", p, isVisible)
    \/ fetchItemsRequest
    \/ fetchItemsResponse
    \/ SelectedVariantsEffect

FetchSpec == Init /\ [][FetchNext]_vars

(* ------------------------ ProductForm.onSubmit ------------------------- *)

\* (variant_type, variant_value, price, quantity) of the variants a form
\* submission carries
FormKinds == {<<"weight", Value250g, 40, 5>>, <<"pcs", Value250g, 40, 5>>}

\* data.variants of a submission: one variant or two, which the schema of
\* the form does not require to differ
FormVariants == ListsOf(FormKinds, 1) \cup [1..2 -> FormKinds]

\* the fields of variant that the update and the insert of onSubmit send
FormPatch(variant) ==
    [variant_type |-> variant[1], variant_value |-> variant[2],
     price |-> variant[3], quantity |-> variant[4]]

\* no create submission is between two of its requests
FormIdle == form.pc \in {"closed", "success", "error"}

\* what the form holds after a request whose answer is the response err
\* and which, without error, is followed by pc
FormAfter(err, pc, newProduct, autoVariant, next, skuData) ==
    [pc |-> IF err # NoError THEN "error" ELSE pc, variants |-> form.variants,
     newProduct |-> newProduct, autoVariant |-> autoVariant, next |-> next,
     skuData |-> skuData]

\* onSubmit of ProductForm without item, up to the answer of its first
\* request: insert into product ... select().single()
onSubmit(data) ==
    /\ FormIdle
    /\ InsertProductRow("admin", NULL)
    /\ form' = [pc |-> IF response' # NoError THEN "error" ELSE "select",
                variants |-> data,
                newProduct |-> IF response' # NoError THEN 0 ELSE product_ids',
                autoVariant |-> 0, next |-> 1, skuData |-> NULL]

\* the second request: select id from product_variants where product_id =
\* newProduct.id, single(), which fails unless one row is returned
onSubmitSelectDefault ==
    /\ form.pc = "select"
    /\ LET rows == VariantsOf(product_variants, form.newProduct)
       IN form' = IF Cardinality(rows) = 1
                  THEN [form EXCEPT !.pc = "update",
                                    !.autoVariant = CHOOSE v \in rows : TRUE]
                  ELSE [form EXCEPT !.pc = "error"]
    /\ UNCHANGED <<store, deleting, response, sku_calls, timestamps, resolver>>
    /\ UNCHANGED <<page, fetching, postgres_changes, status>>

\* the third request: the auto-created variant gets the fields of
\* data.variants[0]
onSubmitUpdateDefault ==
    /\ form.pc = "update"
    /\ UpdateVariantRow("admin", form.autoVariant, FormPatch(form.variants[1]))
    /\ form' = FormAfter(response',
                         IF Len(form.variants) > 1 THEN "generate_sku" ELSE "success",
                         form.newProduct, form.autoVariant, 2, NULL)

\* rpc('generate_sku') for the next of data.variants.slice(1)
onSubmitGenerateSku ==
    /\ form.pc = "generate_sku"
    /\ sku_sequence < MaxSeq
    /\ sku_sequence' = nextval(sku_sequence)
    /\ form' = [form EXCEPT !.pc = "insert", !.skuData = FormatSku(sku_sequence')]
    /\ response' = NoError
    /\ UNCHANGED <<category, product, product_variants, product_ids, variant_ids>>
    /\ UNCHANGED <<deleting, sku_calls, timestamps, resolver>>
    /\ UNCHANGED <<page, fetching, postgres_changes, status>>

\* the insert of the next of data.variants.slice(1) with the sku returned
onSubmitInsertVariant ==
    /\ form.pc = "insert"
    /\ InsertVariantRow("admin", VariantRow(form.newProduct, form.skuData,
                                            form.variants[form.next]))
    /\ form' = FormAfter(response',
                         IF form.next < Len(form.variants) THEN "generate_sku"
                         ELSE "success",
                         form.newProduct, form.autoVariant, form.next + 1, NULL)

\* an admin creates products with the form, one submission after the
\* other, while the catalog page reads the tables
FormNext ==
    \/ \E data \in FormVariants : onSubmit(data)
    \/ onSubmitSelectDefault
    \/ onSubmitUpdateDefault
    \/ onSubmitGenerateSku
    \/ onSubmitInsertVariant
    \/ fetchItems
    \/ SelectedVariantsEffect

FormSpec == Init /\ [][FormNext]_vars

(* ------------------- column values of product_variants ----------------- *)

\* (variant_type, variant_value, price, quantity) of the rows a client of
\* the database API may send: a row the forms accept, and rows with an empty
\* variant_value, a negative price, a negative quantity
ApiKinds ==
    {<<"weight", Value250g, 40, 5>>, <<"weight", << >>, 40, 5>>,
     <<"weight", Value250g, -1, 5>>, <<"weight", Value250g, 40, -1>>}

\* the rows a client of the database API inserts
ApiRows == {VariantRow(p, <<"A", "1">>, a) : p \in ProductIds, a \in ApiKinds}

\* the columns a client of the database API updates
ApiPatches ==
    {[variant_type |-> "box"], [variant_value |-> << >>], [price |-> -1],
     [quantity |-> -1]}

\* quantities typed into the quantity dialog of the dashboard
DialogQuantities == {-1, 0, 7}

\* handleQuantityUpdate of AdminDashboard.tsx for the variant v in the
\* dialog: a negative quantity ends in a toast, any other is sent
handleQuantityUpdate(v, qty) ==
    IF qty < 0 THEN v \in DOMAIN product_variants /\ UNCHANGED vars
    ELSE /\ v \in DOMAIN product_variants
         /\ UpdateVariant("admin", v, [quantity |-> qty])

\* admins write variants with the dashboard and with the database API
ApiNext ==
    \/ CreateProduct("admin", NULL)
    \/ \E row \in ApiRows : CreateVariant("admin", row)
    \/ \E v \in 1..MaxVariants, patch \in ApiPatches : UpdateVariant("admin", v, patch)
    \/ \E v \in 1..MaxVariants, qty \in DialogQuantities : handleQuantityUpdate(v, qty)

ApiSpec == Init /\ [][ApiNext]_vars

(* ----------------------------- store status --------------------------- *)

\* change events of store_status a dashboard session may have received and
\* not yet handled
MaxEvents == 2

\* the rows of store_status with the greatest updated_at
LatestRows(rows) ==
    {id \in DOMAIN rows :
        \A other \in DOMAIN rows : rows[other].updated_at <= rows[id].updated_at}

\* every subscribed session can take one more event
InboxRoom ==
    \A s \in Sessions : dashboard[s].pc # "unmounted" => Len(inbox[s]) < MaxEvents

\* postgres_changes on store_status: the changed row reaches the channel of
\* every subscribed session
Broadcast(id, is_open) ==
    inbox' = [s \in Sessions |->
                 IF dashboard[s].pc # "unmounted"
                 THEN Append(inbox[s], [id |-> id, is_open |-> is_open])
                 ELSE inbox[s]]

\* insert into store_status (is_open): id and updated_at take their
\* defaults, updated_at the time of the statement
InsertStoreStatus(id, is_open) ==
    /\ clock < MaxClock
    /\ InboxRoom
    /\ clock' = clock + 1
    /\ store_status' = Put(store_status, id, [is_open |-> is_open, updated_at |-> clock'])
    /\ Broadcast(id, is_open)
    /\ last_set' = <<is_open>>

\* the mount effect of AdminDashboard.tsx subscribes to the channel and
\* calls fetchStoreStatus, here up to the answer of its select: the row with
\* the greatest updated_at, if there is a row
fetchStoreStatus(s) ==
    /\ dashboard[s].pc = "unmounted"
    /\ IF store_status = << >>
       THEN dashboard' = [dashboard EXCEPT ![s].pc = "insert"]
       ELSE \E id \in LatestRows(store_status) :
               dashboard' = [dashboard EXCEPT ![s] =
                                [pc |-> "ready", storeStatusId |-> <<id>>,
                                 storeStatus |-> <<store_status[id].is_open>>]]
    /\ UNCHANGED <<store_status, inbox, last_set>>
    /\ UNCHANGED <<store, deleting, response, sku_calls, timestamps, resolver>>
    /\ UNCHANGED <<page, fetching, postgres_changes, form>>

\* fetchStoreStatus after a select that returned no row: it inserts one,
\* is_open true
fetchStoreStatusInsert(s) ==
    /\ dashboard[s].pc = "insert"
    /\ LET id == Cardinality(DOMAIN store_status) + 1
       IN /\ InsertStoreStatus(id, TRUE)
          /\ dashboard' = [dashboard EXCEPT ![s] =
                              [pc |-> "ready", storeStatusId |-> <<id>>,
                               storeStatus |-> <<TRUE>>]]
    /\ UNCHANGED last_updated
    /\ UNCHANGED <<store, deleting, response, sku_calls, resolver>>
    /\ UNCHANGED <<page, fetching, postgres_changes, form>>

\* handleStoreStatusToggle(nextState) of session s, whose switch is enabled
\* once fetchStoreStatus is over: an update of the row storeStatusId, which
\* sets is_open and updated_by, or an insert when the session has no id
handleStoreStatusToggle(s, nextState) ==
    /\ dashboard[s].pc = "ready"
    /\ IF dashboard[s].storeStatusId # << >>
       THEN LET id == dashboard[s].storeStatusId[1]
            IN /\ InboxRoom
               /\ id \in DOMAIN store_status
               /\ store_status' = [store_status EXCEPT ![id].is_open = nextState]
               /\ Broadcast(id, nextState)
               /\ last_set' = <<nextState>>
               /\ dashboard' = [dashboard EXCEPT ![s].storeStatus = <<nextState>>]
               /\ UNCHANGED clock
       ELSE LET id == Cardinality(DOMAIN store_status) + 1
            IN /\ InsertStoreStatus(id, nextState)
               /\ dashboard' = [dashboard EXCEPT ![s].storeStatusId = <<id>>,
                                                  ![s].storeStatus = <<nextState>>]
    /\ UNCHANGED last_updated
    /\ UNCHANGED <<store, deleting, response, sku_calls, resolver>>
    /\ UNCHANGED <<page, fetching, postgres_changes, form>>

\* the postgres_changes handler of storeChannel in session s takes the next
\* event: setStoreStatus(next.is_open), setStoreStatusId(next.id)
storeChannel(s) ==
    /\ inbox[s] # << >>
    /\ dashboard' = [dashboard EXCEPT ![s].storeStatus = <<Head(inbox[s]).is_open>>,
                                       ![s].storeStatusId = <<Head(inbox[s]).id>>]
    /\ inbox' = [inbox EXCEPT ![s] = Tail(inbox[s])]
    /\ UNCHANGED <<store_status, last_set>>
    /\ UNCHANGED <<store, deleting, response, sku_calls, timestamps, resolver>>
    /\ UNCHANGED <<page, fetching, postgres_changes, form>>

\* admins open the dashboard in two sessions and use the store switch
StatusNext ==
    \/ \E s \in Sessions : fetchStoreStatus(s)
    \/ \E s \in Sessions : fetchStoreStatusInsert(s)
    \/ \E s \in Sessions, nextState \in BOOLEAN : handleStoreStatusToggle(s, nextState)
    \/ \E s \in Sessions : storeChannel(s)

StatusSpec == Init /\ [][StatusNext]_vars

(* ------------------------------ properties ---------------------------- *)

\* number of variant rows of the product that owns row v
SiblingCount(v) ==
    Cardinality(VariantsOf(product_variants, product_variants[v].product_id))

C2_DeleteVariantGuard ==
    [][\A v \in DOMAIN product_variants :
          /\ (DeleteVariantBegin("admin", v) /\ SiblingCount(v) = 1)
                => (response' = ErrLastVariant
                    /\ product_variants' = product_variants)
          /\ (DeleteVariantBegin("admin", v) /\ SiblingCount(v) >= 2)
                => (v \in deleting' /\ product_variants' = product_variants)
          /\ DeleteVariantEnd(v)
                => /\ response' = NoError
                   /\ v \notin DOMAIN product_variants'
                   /\ VariantsOf(product_variants',
                                 product_variants[v].product_id) # {}]_vars

\* C3: delete statements that run concurrently on the two variants of a
\* product with exactly two variants do not both pass the count check, so
\* that their product is never left with zero variants.
C3_ConcurrentDeletesKeepOne ==
    \A v \in deleting : \A w \in deleting \ {v} :
        ~ /\ {v, w} \subseteq DOMAIN product_variants
          /\ VariantsOf(product_variants, product_variants[v].product_id) = {v, w}

\* C4: the step that adds a product adds, in that same step, exactly one
\* variant of it, with variant_type pcs, variant_value 'default', price 0,
\* quantity 0 and the SKU of a sequence value drawn in this step that no
\* stored variant had; no state holds the new product without it.
C4_DefaultVariantProvisioned ==
    [][\A p \in (DOMAIN product') \ (DOMAIN product) :
          /\ sku_sequence' = sku_sequence + 1
          /\ Cardinality(VariantsOf(product_variants', p)) = 1
          /\ \A v \in VariantsOf(product_variants', p) :
                /\ v \notin DOMAIN product_variants
                /\ product_variants'[v] =
                      [product_id |-> p, sku |-> FormatSku(sku_sequence'),
                       variant_type |-> "pcs", variant_value |-> DefaultValue,
                       price |-> 0, quantity |-> 0]
                /\ \A w \in DOMAIN product_variants :
                      product_variants[w].sku # product_variants'[v].sku]_vars

\* a product stands with the default variant its creation gave it
C4_Witness ==
    \E p \in DOMAIN product : \E v \in VariantsOf(product_variants, p) :
        /\ product_variants[v] = create_default_variant(p, FormatSku(sku_sequence))
        /\ response = NoError

\* C5: a delete of an existing product by an admin succeeds and removes the
\* product and all of its variants, whatever their number.
C5_DeleteProductCascades ==
    [][\A p \in DOMAIN product :
          DeleteProduct("admin", p)
             => /\ response' = NoError
                /\ p \notin DOMAIN product'
                /\ VariantsOf(product_variants', p) = {}]_vars

\* no two stored variants have the same sku
UniqueSkus ==
    \A v, w \in DOMAIN product_variants :
        v # w => product_variants[v].sku # product_variants[w].sku

\* row has the sku of a stored variant other than v
SkuTaken(v, row) ==
    \E w \in (DOMAIN product_variants) \ {v} : product_variants[w].sku = row.sku

\* C9: no two stored variants, of the same or of different products, have
\* the same sku, before and after every step; an insert or update of a variant that would give it an sku
\* another variant has is rejected with an error and leaves the store
\* unchanged (a step is such a rejection, or it is no insert or update of
\* a row whose sku is taken).
C9_SkuUnique ==
    [][/\ UniqueSkus /\ UniqueSkus'
       /\ \/ (response' # NoError /\ UNCHANGED store)
          \/ /\ \A row \in PayloadRows :
                   ~ (SkuTaken(0, row) /\ CreateVariant("admin", row))
             /\ \A v \in DOMAIN product_variants : \A k \in PayloadSkus :
                   ~ (/\ SkuTaken(v, [sku |-> k])
                      /\ UpdateVariant("admin", v, [sku |-> k]))]_vars

\* a statement has just been refused for its sku while variants are stored
C9_Witness ==
    /\ response = ErrSkuKey
    /\ Cardinality(DOMAIN product_variants) >= 2

\* no product has two variants with the same (variant_type, variant_value)
UniqueVariantPerProduct ==
    \A v, w \in DOMAIN product_variants :
        (/\ v # w
         /\ product_variants[v].product_id = product_variants[w].product_id)
           => <<product_variants[v].variant_type, product_variants[v].variant_value>>
                 # <<product_variants[w].variant_type, product_variants[w].variant_value>>

\* row has the product, type and value of a stored variant other than v
DuplicatesVariant(v, row) ==
    \E w \in (DOMAIN product_variants) \ {v} :
        /\ product_variants[w].product_id = row.product_id
        /\ product_variants[w].variant_type = row.variant_type
        /\ product_variants[w].variant_value = row.variant_value

\* the updates that set a column of unique_variant_per_product
KeyPatches == {patch \in PayloadPatches : "sku" \notin DOMAIN patch}

\* C10: no product has two variants with the same (variant_type,
\* variant_value) pair, before and after every step; an insert or update of a variant that would produce
\* such a pair is rejected with an error and leaves the store unchanged (a
\* step is such a rejection, or it is no insert or update of a duplicate).
C10_VariantUniquePerProduct ==
    [][/\ UniqueVariantPerProduct /\ UniqueVariantPerProduct'
       /\ \/ (response' # NoError /\ UNCHANGED store)
          \/ /\ \A row \in PayloadRows :
                   ~ (DuplicatesVariant(0, row) /\ CreateVariant("admin", row))
             /\ \A v \in DOMAIN product_variants : \A patch \in KeyPatches :
                   ~ (/\ DuplicatesVariant(v, ApplyPatch(product_variants[v], patch))
                      /\ UpdateVariant("admin", v, patch))]_vars

\* a statement has just been refused for its (product, type, value) while a
\* product holds two variants that differ in type only
C10_Witness ==
    /\ response = ErrVariantKey
    /\ \E v, w \in DOMAIN product_variants :
          /\ v # w
          /\ product_variants[v].product_id = product_variants[w].product_id
          /\ product_variants[v].variant_value = product_variants[w].variant_value

\* C6: the SKU strings that generate_sku() calls have returned, in any
\* interleaving of the callers, are pairwise distinct.
C6_ReturnedSkusDistinct ==
    \A i, j \in 1..Len(returned) : i # j => returned[i].sku # returned[j].sku

\* C7: when one generate_sku() call returned before another began, the
\* numeric suffix of the later call's SKU is strictly greater.
C7_SuffixIncreases ==
    \A j \in 1..Len(returned) : \A i \in 1..returned[j].seen :
        SkuSuffix(returned[i].sku) < SkuSuffix(returned[j].sku)

\* C8: the SKU of sequence value n is the prefix 'SF-' and the decimal digits
\* of n, zero-padded on the left to 4 and longer when n has more digits, so
\* that its numeric suffix is n.
C8_FormatKeepsAllDigits ==
    \A i \in 1..Len(returned) :
        LET n == returned[i].next_val
            sku == returned[i].sku
            digits == Len(IntToText(n))
        IN /\ SubSeq(sku, 1, Len(SkuPrefix)) = SkuPrefix
           /\ Len(sku) = Len(SkuPrefix) + (IF digits > SkuWidth THEN digits ELSE SkuWidth)
           /\ SkuSuffix(sku) = n

\* C11: every mutating statement of a caller that is not in admin_users
\* fails with the row-level security error and changes nothing in the store.
C11_NonAdminRejected ==
    [][\A actor \in Actors \ admin_users :
          (\/ \E cat \in PayloadCategories : CreateProduct(actor, cat)
           \/ \E p \in ProductIds : DeleteProduct(actor, p)
           \/ \E row \in RowsOf(actor) : CreateVariant(actor, row)
           \/ \E v \in 1..MaxVariants : \E patch \in PatchesOf(actor) :
                 UpdateVariant(actor, v, patch)
           \/ \E v \in 1..MaxVariants : DeleteVariantBegin(actor, v))
             => (response' = ErrRls /\ UNCHANGED store)]_vars

CategoryReferences ==
    \A p \in DOMAIN product :
        /\ product[p].category # <<>>
        /\ product[p].category = NULL \/ product[p].category \in category

\* C13: after every insert and update of a product and every insert and
\* delete of a category, each product's category is null or the name of a
\* category that exists, never the empty string; a payload whose category is
\* the empty string is stored with a null category.
C13_CategoryNullOrExisting ==
    [][/\ CategoryReferences'
       /\ CreateProduct("admin", <<>>)
             => /\ response' = NoError
                /\ product'[product_ids'].category = NULL
       /\ \A p \in DOMAIN product :
             UpdateProduct("admin", p, <<>>)
                => /\ response' = NoError
                   /\ product'[p].category = NULL]_vars

\* a product refers to a stored category and another has none
C13_Witness ==
    /\ response = NoError
    /\ \E p, q \in DOMAIN product :
          /\ product[p].category \in category
          /\ product[q].category = NULL

\* C14: last_updated of a product row and of a variant row is assigned by
\* the server: after an update of the row it is the server's time of that
\* update whatever the payload carried, and every value a statement stores
\* in the column is the server's time, never a value of the client.
C14_LastUpdatedServerAssigned ==
    [][/\ \A table \in StampedTables, id \in StampedIds, payload \in StampPayloads :
             UpdateStamped(table, id, payload)
                => last_updated'[<<table, id>>] = clock
       /\ \A key \in DOMAIN last_updated' :
             (key \notin DOMAIN last_updated \/ last_updated'[key] # last_updated[key])
                => last_updated'[key] = clock]_vars

C16_ViewsAgree ==
    \A v, w \in DOMAIN sorted :
        /\ sorted[v] = sorted[w]
        /\ defaultVariant(sorted[v]) = defaultVariant(sorted[w])

\* C17: the comparator of sortVariants is a total order on the variants of
\* a list: antisymmetric, and with no three variants a before b, b before c
\* and c before a, also when weight variants are mixed with other types.
C17_ComparatorTotalOrder ==
    ("Index" \in DOMAIN sorted) =>
        \A i, j, k \in 1..Len(variants) :
            LET a == variants[i]
                b == variants[j]
                c == variants[k]
            IN /\ Comparator("Index", a, b) = 0 - Comparator("Index", b, a)
               /\ ~ (/\ Comparator("Index", a, b) < 0
                     /\ Comparator("Index", b, c) < 0
                     /\ Comparator("Index", c, a) < 0)
               /\ (Comparator("Index", a, b) <= 0 /\ Comparator("Index", b, c) <= 0)
                     => Comparator("Index", a, c) <= 0

\* C18: the sorted sequence depends only on the set of variants: every
\* rearrangement of the input list is sorted to the same sequence.
C18_OrderIndependentOfInput ==
    ("Index" \in DOMAIN sorted) =>
        \A list \in PermutationsOf(variants) :
            sortVariants("Index", list) = sorted["Index"]

\* C19: in the catalog list, a product with variants for which the user has
\* picked no variant shows the first variant of its sorted list as active,
\* after every refetch, also one that brings a variant that sorts earlier.
C19_DefaultIsFirstSorted ==
    \A p \in DOMAIN items :
        (items[p] # << >> /\ p \notin DOMAIN user_selected)
           => selectedVariant(p) = sortVariants("Index", items[p])[1].id

C22_SkuGeneratedWhenOmitted ==
    [][\A row \in PayloadRows :
          (/\ row.sku = NULL
           /\ row.product_id \in DOMAIN product
           /\ row.variant_type \in VariantTypes
           /\ ~DuplicatesVariant(0, row)
           /\ CreateVariant("admin", row))
             => /\ response' = NoError
                /\ sku_sequence' = sku_sequence + 1
                /\ variant_ids' \in DOMAIN product_variants'
                /\ product_variants'[variant_ids'] =
                      [row EXCEPT !.sku = FormatSku(sku_sequence')]]_vars

\* some variant of the list is a weight
HasWeight(list) == \E i \in 1..Len(list) : list[i].variant_type = "weight"

\* C23: the parsing mode of a sort is chosen once for the set: when a variant
\* of the list is a weight, every comparison of that sort, also between two
\* variants of other types, compares the weight-to-grams values, and
\* otherwise every comparison compares the plain numeric values.
C23_ModeChosenPerSet ==
    \A view \in DOMAIN sorted :
        \A i, j \in 1..Len(variants) :
            Comparator(view, variants[i], variants[j])
               = CompareParsed(view, HasWeight(variants), variants[i], variants[j])

\* the grams the unit table gives for a value: the first decimal number of
\* the lower-cased value times 1000 for kg, 1/1000 for mg, 1 for g, 453.592
\* for lb or pound, 28.3495 for oz or ounce, 1 without a unit; << >> without
\* a number (in 1/100000 of a gram)
UnitTableGrams(value) ==
    LET lowerValue == toLowerCase(value)
        numMatch == FirstDecimal(lowerValue)
        num == parseFloat(numMatch)[1]
    IN IF numMatch = << >> THEN << >>
       ELSE IF includes(lowerValue, <<"k", "g">>) THEN <<num * 10000 * 1000>>
       ELSE IF includes(lowerValue, <<"m", "g">>) THEN <<num * 10>>
       ELSE IF includes(lowerValue, <<"g">>) THEN <<num * 10000>>
       ELSE IF includes(lowerValue, <<"l", "b">>)
               \/ includes(lowerValue, <<"p", "o", "u", "n", "d">>)
            THEN <<num * 4535920>>
       ELSE IF includes(lowerValue, <<"o", "z">>)
               \/ includes(lowerValue, <<"o", "u", "n", "c", "e">>)
            THEN <<num * 283495>>
       ELSE <<num * 10000>>

\* C24: parseWeightInGrams returns the first decimal number of the value
\* times the factor of its unit (kg 1000, g 1, mg 1/1000, lb 453.592, oz
\* 28.3495, none 1) and no value without a number; a weight in mg sorts
\* before a weight of the same number in g.
C24_WeightUnits ==
    ("Index" \in DOMAIN sorted) =>
        \A i, j \in 1..Len(variants) :
            LET a == variants[i]
                b == variants[j]
            IN /\ parseWeightInGrams(a.variant_value) = UnitTableGrams(a.variant_value)
               /\ (/\ a.variant_type = "weight"
                   /\ includes(a.variant_value, <<"m", "g">>)
                   /\ ~includes(b.variant_value, <<"m", "g">>)
                   /\ ~includes(b.variant_value, <<"k", "g">>)
                   /\ includes(b.variant_value, <<"g">>)
                   /\ FirstDecimal(a.variant_value) = FirstDecimal(b.variant_value))
                     => Comparator("Index", a, b) < 0

\* the number of a variant in a sort of list: its weight in grams when the
\* list holds a weight, its plain number otherwise
NumberIn(list, v) ==
    IF HasWeight(list) THEN parseWeightInGrams(v.variant_value)
    ELSE parseNumericValue(v.variant_value)

\* C25: in the output of sortVariants every variant whose value parses to a
\* number precedes every variant whose value does not, the parsed ones are
\* in ascending order of their number, and the others in ascending order of
\* price and, at equal price, of variant_value without regard to case.
C25_SortedOutputOrder ==
    ("Index" \in DOMAIN sorted) =>
        LET out == sorted["Index"]
        IN \A i, j \in 1..Len(out) :
              i < j =>
                 LET x == NumberIn(out, out[i])
                     y == NumberIn(out, out[j])
                 IN /\ ~ (x = << >> /\ y # << >>)
                    /\ (x # << >> /\ y # << >>) => x[1] <= y[1]
                    /\ (x = << >> /\ y = << >>)
                          => /\ out[i].price <= out[j].price
                             /\ out[i].price = out[j].price
                                   => localeCompare(out[i].variant_value,
                                                    out[j].variant_value) <= 0

\* C27: after each fetchItems the items of the catalog page are exactly the
\* products whose is_visible is true in the tables it read, each with its
\* variants: a hidden product is never listed.
C27_OnlyVisibleListed ==
    [][fetchItems =>
          /\ DOMAIN items' = {p \in DOMAIN product : product[p].is_visible}
          /\ \A p \in DOMAIN items' :
                IdsOf(items'[p]) = VariantsOf(product_variants, p)]_vars

\* a hidden product is in the tables and the page, refetched since, lists
\* the visible product and not the hidden one
C27_Witness ==
    /\ effect_pending
    /\ \E p \in DOMAIN product : ~product[p].is_visible /\ p \notin DOMAIN items
    /\ \E p \in DOMAIN product : product[p].is_visible /\ p \in DOMAIN items

\* C28: once no change is left to notify and no fetchItems call is in
\* flight, the items of the page are the current catalog: the visible
\* products with their current variants.
C28_PageConverges ==
    (~postgres_changes /\ fetching = {}) => items \in SelectResults

\* the variants stored for product p are the submitted ones, one row each
StoredAsSubmitted(p, data) ==
    /\ Cardinality(VariantsOf(product_variants, p)) = Len(data)
    /\ \A i \in 1..Len(data) :
          \E v \in VariantsOf(product_variants, p) :
             LET row == product_variants[v]
             IN <<row.variant_type, row.variant_value, row.price, row.quantity>>
                   = data[i]

\* C29: a create submission of ProductForm is all or nothing: when it
\* reports success the new product has exactly the submitted variants, when
\* it reports an error no new product and no variant of it is stored, and
\* between its requests no reader is shown the new product.
C29_CreateAllOrNothing ==
    /\ form.pc = "success"
          => /\ form.newProduct \in DOMAIN product
             /\ StoredAsSubmitted(form.newProduct, form.variants)
    /\ form.pc = "error"
          => /\ form.newProduct \notin DOMAIN product
             /\ VariantsOf(product_variants, form.newProduct) = {}
    /\ form.pc \in {"select", "update", "generate_sku", "insert"}
          => form.newProduct \notin DOMAIN items

\* C26: every stored variant has a variant_type of the five allowed, a
\* variant_value that is not empty, and a price and a quantity of 0 or more,
\* whichever client wrote it.
C26_VariantColumnsValid ==
    \A v \in DOMAIN product_variants :
        /\ product_variants[v].variant_type \in VariantTypes
        /\ product_variants[v].variant_value # << >>
        /\ product_variants[v].price >= 0
        /\ product_variants[v].quantity >= 0

\* C21: after a write of the store status that succeeded, the effective
\* status, is_open of the row with the greatest updated_at, is the value
\* written last, whichever row was written and however many rows there are.
C21_EffectiveStatusIsLastSet ==
    last_set # << >> =>
        \A id \in LatestRows(store_status) : store_status[id].is_open = last_set[1]

\* C30: store_status, empty at first, never holds more than one row under
\* any interleaving of the dashboard sessions.
C30_AtMostOneRow == Cardinality(DOMAIN store_status) <= 1

====
